---- MODULE Spec2Model ----
(***************************************************************************)
(* A model of src/cryptodev.c: the per-file session table (struct fcrypt), *)
(* its sessions (struct csession) and the operations on them:              *)
(* crypto_create_session, crypto_finish_session, crypto_destroy_session,   *)
(* crypto_finish_all_sessions, crypto_get_session_by_sid and crypto_runv.  *)
(* Semaphores are counters; every thread is a position (pc) in one of the  *)
(* functions plus that function's locals.                                  *)
(***************************************************************************)
EXTENDS Integers, Sequences, FiniteSets, TLC

(* ------------------------------ bounds -------------------------------- *)

\* number of threads that call into one struct fcrypt concurrently
NThreads == 3
\* number of crypto_create_session calls that reach the allocation stage
MaxObj == 2
\* session ids get_random_bytes() can draw (small, so that draws collide)
MaxSid == 2
\* cap of the table semaphore's count (up() on it can be repeated)
MaxSem == 2
\* key lengths a caller can pass in sop->keylen / sop->mackeylen
MaxKeyLen == 4
\* the sequential specification: sessions created, segments per request,
\* and the last provider call that may be made to fail
SeqMaxObj == 1
MaxSegs == 2
MaxFail == 4

(* ------------------------- program constants -------------------------- *)

\* blkalg->min_keysize and blkalg->max_keysize of the modelled cipher
BlkMinKey == 1
BlkMaxKey == 2
\* size of keyp[] and of hkeyp[] (scaled down)
CRYPTO_CIPHER_MAX_KEY_LEN == 3
CRYPTO_HMAC_MAX_KEY_LEN == 2

\* crypto_blkcipher_blocksize() and crypto_blkcipher_ivsize() of the cipher
Blocksize == 2
\* PAGE_SIZE, in cipher blocks (PAGE_SIZE is a multiple of every block size)
PageBlocks == 2
PAGE_SIZE == PageBlocks * Blocksize
\* bytes are 0..ByteMod-1; digests are 0..HashMod-1
ByteMod == 3
HashMod == 7

Threads == 1..NThreads
Objs == 1..MaxObj
Sids == 1..MaxSid

\* the value list_for_each_entry leaves in its cursor when the loop runs to
\* the end: container_of(&fcr->list, struct csession, entry), which is the
\* struct fcrypt itself read as a struct csession. It is never NULL.
HeadAsSession == MaxObj + 1
NullPtr == 0

(* ------------------------------ state --------------------------------- *)

VARIABLES
    sem,    \* fcr->sem: count of the table semaphore
    list,   \* fcr->list: the sessions linked in, head first
    ses,    \* the struct csession objects, by allocation number
    blk,    \* state of the cipher handle allocated by create call k
    hsh,    \* state of the hash handle allocated by create call k
    nobj,   \* create calls that have reached the allocation stage
    pc,     \* per thread: position in the code
    op,     \* per thread: the entry point it is in
    arg,    \* per thread: the session id argument (sid / copv->ses)
    cur,    \* per thread: ses_ptr / ses_new
    ret,    \* per thread: the value being returned
    req,    \* per thread: the struct crypt_opv of the run in progress
    out     \* per thread: what the run in progress has done so far

vars == <<sem, list, ses, blk, hsh, nobj, pc, op, arg, cur, ret, req, out>>

NoSession == [st |-> "none", sid |-> 0, sem |-> 0, tfm |-> "NULL",
              hash_tfm |-> "NULL", key |-> 0, iv |-> <<>>]

NoReq == [op |-> "NONE", iv |-> <<>>, segs |-> <<>>]
\* the locals of a crypto_runv call and what it has done: the provider and
\* copy-out calls made, the bytes written through dst and mac, the staging
\* pages held, the running digest, the count of provider calls that can
\* fail, the label the call left through; iv is the cipher's IV state and
\* iv0 what it was before the first segment
NoOut == [calls |-> <<>>, dst |-> <<>>, mac |-> <<>>, pages |-> 0, h |-> 0,
          iv |-> <<>>, iv0 |-> <<>>, nf |-> 0, exit |-> "none", ret |-> "0"]

Init ==
    /\ sem = 1
    /\ list = <<>>
    /\ ses = [k \in Objs |-> NoSession]
    /\ blk = [k \in Objs |-> "none"]
    /\ hsh = [k \in Objs |-> "none"]
    /\ nobj = 0
    /\ pc = [t \in Threads |-> "idle"]
    /\ op = [t \in Threads |-> "none"]
    /\ arg = [t \in Threads |-> 0]
    /\ cur = [t \in Threads |-> NullPtr]
    /\ ret = [t \in Threads |-> "none"]
    /\ req = [t \in Threads |-> NoReq]
    /\ out = [t \in Threads |-> NoOut]

(* ------------------------- Transform Provider -------------------------- *)
(* The kernel CryptoAPI behind crypto_blkcipher_* and crypto_hash_*: a     *)
(* chained block cipher (each block is combined with the previous          *)
(* ciphertext block, the first one with the IV, as in CBC) and an          *)
(* order-sensitive running digest.                                         *)

\* the IV state of a cipher handle as crypto_alloc_blkcipher returns it
Zeros(n) == [j \in 1..n |-> 0]

RECURSIVE Concat(_)
Concat(ss) == IF ss = <<>> THEN <<>> ELSE Head(ss) \o Concat(Tail(ss))

Min(a, b) == IF a < b THEN a ELSE b

\* one block b under key k chained to the previous ciphertext block v
EncBlock(k, v, b) == [j \in 1..Len(b) |-> (b[j] + v[j] + k) % ByteMod]
DecBlock(k, v, c) == [j \in 1..Len(c) |-> (c[j] + 2 * ByteMod - v[j] - k) % ByteMod]

\* the first block of data (short when data is), and what follows it
FirstBlock(data) == SubSeq(data, 1, Min(Blocksize, Len(data)))
AfterBlock(data) == SubSeq(data, Min(Blocksize, Len(data)) + 1, Len(data))

\* the IV state after the ciphertext block c: c itself; a short block
\* replaces the front of the state
NextIV(iv, c) == [j \in 1..Len(iv) |-> IF j <= Len(c) THEN c[j] ELSE iv[j]]

\* crypto_blkcipher_encrypt over data starting from IV state iv: the
\* ciphertext and the IV state left behind
RECURSIVE blkcipher_encrypt(_, _, _)
blkcipher_encrypt(k, iv, data) ==
    IF data = <<>> THEN [data |-> <<>>, iv |-> iv]
    ELSE LET c == EncBlock(k, iv, FirstBlock(data))
             r == blkcipher_encrypt(k, NextIV(iv, c), AfterBlock(data))
         IN [data |-> c \o r.data, iv |-> r.iv]

\* crypto_blkcipher_decrypt: the plaintext and the IV state left behind
RECURSIVE blkcipher_decrypt(_, _, _)
blkcipher_decrypt(k, iv, data) ==
    IF data = <<>> THEN [data |-> <<>>, iv |-> iv]
    ELSE LET c == FirstBlock(data)
             r == blkcipher_decrypt(k, NextIV(iv, c), AfterBlock(data))
         IN [data |-> DecBlock(k, iv, c) \o r.data, iv |-> r.iv]

\* crypto_hash_update: the running digest h after data
RECURSIVE hash_update(_, _)
hash_update(h, data) ==
    IF data = <<>> THEN h
    ELSE hash_update((2 * h + Head(data) + 1) % HashMod, Tail(data))

\* crypto_hash_init leaves the running digest at 0; crypto_hash_final
\* returns it
Digest(data) == hash_update(0, data)

(* --------------------------- list helpers ----------------------------- *)

\* positions of the list, head first, whose session has this sid
Matches(sid) == {i \in 1..Len(list) : ses[list[i]].sid = sid}

\* list_for_each_entry ... if (ses_ptr->sid == sid) break: the first match,
\* or the head read as a session when the loop runs off the end
FirstMatch(sid) ==
    IF Matches(sid) = {} THEN HeadAsSession
    ELSE list[CHOOSE i \in Matches(sid) : \A j \in Matches(sid) : i <= j]

\* list_del(&ses_ptr->entry)
list_del(o) == SelectSeq(list, LAMBDA x : x # o)

\* list_add(&ses_new->entry, &fcr->list): insertion right after the head
list_add(o) == <<o>> \o list

\* crypto_free_blkcipher / crypto_free_hash on a handle in state h
FreeHandle(h) == IF h = "alloc" THEN "freed" ELSE "dfreed"

(* ----------------------- crypto_create_session ------------------------ *)

\* what a caller can pass in struct session_op
SessionOps == [cipher : {"NONE", "DES_CBC", "BAD"},
               mac : {"NONE", "SHA1_HMAC", "SHA1", "BAD"},
               keylen : 0..MaxKeyLen, mackeylen : 0..MaxKeyLen]

\* what the kernel can answer during one call: crypto_alloc_blkcipher,
\* crypto_blkcipher_alg() != NULL, crypto_blkcipher_setkey,
\* crypto_alloc_hash, crypto_hash_setkey, kmalloc
CreateEnvs == [blkAlloc : BOOLEAN, blkalg : BOOLEAN, setkey : BOOLEAN,
               hashAlloc : BOOLEAN, hsetkey : BOOLEAN, kmalloc : BOOLEAN]

AllOk == [blkAlloc |-> TRUE, blkalg |-> TRUE, setkey |-> TRUE,
          hashAlloc |-> TRUE, hsetkey |-> TRUE, kmalloc |-> TRUE]

\* the error: label: free what was allocated, return ret
CreateError(r, b, h) ==
    [ret |-> r,
     blk |-> IF b = "alloc" THEN FreeHandle(b) ELSE b,
     hsh |-> IF h = "alloc" THEN FreeHandle(h) ELSE h]

\* a return statement: nothing is freed
CreateReturn(r, b, h) == [ret |-> r, blk |-> b, hsh |-> h]

\* the hash half of the set-up; b is the state of the cipher handle
CreateHash(sop, env, b) ==
    IF sop.mac = "NONE" THEN
        IF ~env.kmalloc THEN CreateError("ENOMEM", b, "none")
        ELSE CreateReturn("0", b, "none")
    ELSE IF ~env.hashAlloc THEN CreateReturn("EINVAL", b, "none")
    ELSE IF sop.mac = "SHA1_HMAC" /\ sop.mackeylen > CRYPTO_HMAC_MAX_KEY_LEN
        THEN CreateError("EINVAL", b, "alloc")
    ELSE IF sop.mac = "SHA1_HMAC" /\ ~env.hsetkey
        THEN CreateError("EINVAL", b, "alloc")
    ELSE IF ~env.kmalloc THEN CreateError("ENOMEM", b, "alloc")
    ELSE CreateReturn("0", b, "alloc")

\* CreateSetup without the test that a cipher or a hash was asked for
CreateSetup_any(sop, env) ==
    IF sop.cipher = "BAD" THEN CreateReturn("EINVAL", "none", "none")
    ELSE IF sop.mac = "BAD" THEN CreateReturn("EINVAL", "none", "none")
    ELSE IF sop.cipher = "NONE" THEN CreateHash(sop, env, "none")
    ELSE IF ~env.blkAlloc THEN CreateReturn("EINVAL", "none", "none")
    ELSE IF env.blkalg /\ (sop.keylen < BlkMinKey \/ sop.keylen > BlkMaxKey)
        THEN CreateError("EINVAL", "alloc", "none")
    ELSE IF sop.keylen > CRYPTO_CIPHER_MAX_KEY_LEN
        THEN CreateError("EINVAL", "alloc", "none")
    ELSE IF ~env.setkey THEN CreateError("EINVAL", "alloc", "none")
    ELSE CreateHash(sop, env, "alloc")

\* crypto_create_session up to and including the kmalloc of the session:
\* the value returned ("0": the call goes on to insert the session) and the
\* state the two handles of this call are left in
CreateSetup(sop, env) ==
    IF sop.cipher = "NONE" /\ sop.mac = "NONE"
        THEN CreateReturn("EINVAL", "none", "none")
    ELSE IF sop.cipher = "BAD" THEN CreateReturn("EINVAL", "none", "none")
    ELSE IF sop.mac = "BAD" THEN CreateReturn("EINVAL", "none", "none")
    ELSE IF sop.cipher = "NONE" THEN CreateHash(sop, env, "none")
    ELSE IF ~env.blkAlloc THEN CreateReturn("EINVAL", "none", "none")
    ELSE IF env.blkalg /\ (sop.keylen < BlkMinKey \/ sop.keylen > BlkMaxKey)
        THEN CreateError("EINVAL", "alloc", "none")
    ELSE IF sop.keylen > CRYPTO_CIPHER_MAX_KEY_LEN
        THEN CreateError("EINVAL", "alloc", "none")
    ELSE IF ~env.setkey THEN CreateError("EINVAL", "alloc", "none")
    ELSE CreateHash(sop, env, "alloc")

\* lines 271-275: the new session, not yet in the list
NewSession(sop, r, sid) ==
    [st |-> "new", sid |-> sid, sem |-> 1,
     tfm |-> IF r.blk = "alloc" THEN "set" ELSE "NULL",
     hash_tfm |-> IF r.hsh = "alloc" THEN "set" ELSE "NULL",
     key |-> IF r.blk = "alloc" THEN sop.keylen ELSE 0,
     iv |-> IF r.blk = "alloc" THEN Zeros(Blocksize) ELSE <<>>]

\* entry, validation, allocation of the handles and of the session
create_begin(t, Sops, Envs, limit) ==
    /\ pc[t] = "idle"
    /\ nobj < limit
    /\ \E sop \in Sops, env \in Envs, sid \in Sids :
         LET k == nobj + 1
             r == CreateSetup(sop, env)
         IN /\ nobj' = k
            /\ blk' = [blk EXCEPT ![k] = r.blk]
            /\ hsh' = [hsh EXCEPT ![k] = r.hsh]
            /\ op' = [op EXCEPT ![t] = "create"]
            /\ cur' = [cur EXCEPT ![t] = k]
            /\ IF r.ret = "0"
               THEN /\ ses' = [ses EXCEPT ![k] = NewSession(sop, r, sid)]
                    /\ pc' = [pc EXCEPT ![t] = "c_lock"]
                    /\ ret' = ret
               ELSE /\ ses' = ses
                    /\ pc' = [pc EXCEPT ![t] = "ret"]
                    /\ ret' = [ret EXCEPT ![t] = r.ret]
    /\ UNCHANGED <<sem, list, arg, req, out>>

\* create_pass without the goto restart: after a duplicate the new draw is
\* taken as it comes
create_pass_no_restart(t) ==
    /\ pc' = [pc EXCEPT ![t] = "c_add"]
    /\ IF Matches(ses[cur[t]].sid) # {}
       THEN \E sid \in Sids : ses' = [ses EXCEPT ![cur[t]].sid = sid]
       ELSE ses' = ses

\* one pass of the restart: loop for the session ses_new. A duplicate sid:
\* draw again and goto restart; none: leave the loop
create_pass(t) ==
    IF Matches(ses[cur[t]].sid) # {}
    THEN /\ \E sid \in Sids : ses' = [ses EXCEPT ![cur[t]].sid = sid]
         /\ pc' = [pc EXCEPT ![t] = "c_scan"]
    ELSE /\ ses' = ses
         /\ pc' = [pc EXCEPT ![t] = "c_add"]

\* down(&fcr->sem) and the first pass over the list
create_lock(t) ==
    /\ pc[t] = "c_lock"
    /\ sem > 0
    /\ sem' = sem - 1
    /\ create_pass(t)
    /\ UNCHANGED <<list, blk, hsh, nobj, op, arg, cur, ret, req, out>>

\* after goto restart: the next pass over the list
create_scan(t) ==
    /\ pc[t] = "c_scan"
    /\ create_pass(t)
    /\ UNCHANGED <<sem, list, blk, hsh, nobj, op, arg, cur, ret, req, out>>

\* list_add, up(&fcr->sem), sop->ses = sid, return 0
create_add(t) ==
    /\ pc[t] = "c_add"
    /\ list' = list_add(cur[t])
    /\ ses' = [ses EXCEPT ![cur[t]].st = "listed"]
    /\ sem' = sem + 1
    /\ ret' = [ret EXCEPT ![t] = "0"]
    /\ pc' = [pc EXCEPT ![t] = "ret"]
    /\ UNCHANGED <<blk, hsh, nobj, op, arg, cur, req, out>>

\* the call has returned: its locals are gone
Return(t) ==
    /\ pc[t] = "ret"
    /\ pc' = [pc EXCEPT ![t] = "idle"]
    /\ op' = [op EXCEPT ![t] = "none"]
    /\ arg' = [arg EXCEPT ![t] = 0]
    /\ cur' = [cur EXCEPT ![t] = NullPtr]
    /\ ret' = [ret EXCEPT ![t] = "none"]
    /\ req' = [req EXCEPT ![t] = NoReq]
    /\ out' = [out EXCEPT ![t] = NoOut]
    /\ UNCHANGED <<sem, list, ses, blk, hsh, nobj>>

(* ------------- crypto_finish_session, crypto_destroy_session ---------- *)

\* entry of crypto_finish_session(fcr, sid)
finish_begin(t) ==
    /\ pc[t] = "idle"
    /\ \E sid \in Sids :
         arg' = [arg EXCEPT ![t] = sid]
    /\ op' = [op EXCEPT ![t] = "finish"]
    /\ pc' = [pc EXCEPT ![t] = "f_lock"]
    /\ UNCHANGED <<sem, list, ses, blk, hsh, nobj, cur, ret, req, out>>

\* "if (!ses_ptr) ret = -ENOENT" for the cursor the loop has left
finish_ret(o) == IF o = NullPtr THEN "ENOENT" ELSE "0"

\* down(&fcr->sem) and list_for_each_entry_safe. On a match: list_del, and
\* crypto_destroy_session is entered with fcr->sem held. With no match the
\* cursor ends as the list head read as a session; up(&fcr->sem); return
finish_lock(t) ==
    /\ pc[t] = "f_lock"
    /\ sem > 0
    /\ LET o == FirstMatch(arg[t])
       IN /\ cur' = [cur EXCEPT ![t] = o]
          /\ IF o # HeadAsSession
             THEN /\ sem' = sem - 1
                  /\ list' = list_del(o)
                  /\ ses' = [ses EXCEPT ![o].st = "unlinked"]
                  /\ pc' = [pc EXCEPT ![t] = "d_down"]
                  /\ ret' = ret
             ELSE /\ sem' = sem
                  /\ list' = list
                  /\ ses' = ses
                  /\ pc' = [pc EXCEPT ![t] = "ret"]
                  /\ ret' = [ret EXCEPT ![t] = finish_ret(o)]
    /\ UNCHANGED <<blk, hsh, nobj, op, arg, req, out>>

\* what crypto_destroy_session leaves of the session o once it holds its
\* semaphore: both handle pointers cleared, up(&ses_ptr->sem), kfree
DestroyedSession(o) ==
    [ses[o] EXCEPT !.tfm = "NULL", !.hash_tfm = "NULL", !.st = "freed"]

\* crypto_free_blkcipher(ses_ptr->tfm), if the pointer is set
DestroyBlk(o) ==
    IF ses[o].tfm # "NULL" THEN [blk EXCEPT ![o] = FreeHandle(@)] ELSE blk

\* DestroyHash without the crypto_free_hash call
DestroyHash_skipped(o) == hsh

\* crypto_free_hash(ses_ptr->hash_tfm), if the pointer is set
DestroyHash(o) ==
    IF ses[o].hash_tfm # "NULL" THEN [hsh EXCEPT ![o] = FreeHandle(@)] ELSE hsh

\* crypto_destroy_session: down_trylock, and down when that fails, so the
\* caller goes on once the session's semaphore is free; then the frees.
\* Back in crypto_finish_session: break, up(&fcr->sem), return 0; back in
\* crypto_finish_all_sessions: the next turn of the loop
destroy_down(t) ==
    /\ pc[t] = "d_down"
    /\ ses[cur[t]].sem > 0
    /\ blk' = DestroyBlk(cur[t])
    /\ hsh' = DestroyHash(cur[t])
    /\ ses' = [ses EXCEPT ![cur[t]] = DestroyedSession(cur[t])]
    /\ IF op[t] = "finish"
       THEN /\ sem' = sem + 1
            /\ ret' = [ret EXCEPT ![t] = "0"]
            /\ pc' = [pc EXCEPT ![t] = "ret"]
       ELSE /\ sem' = sem
            /\ ret' = ret
            /\ pc' = [pc EXCEPT ![t] = "a_loop"]
    /\ UNCHANGED <<list, nobj, op, arg, cur, req, out>>

(* --------------------- crypto_finish_all_sessions ---------------------- *)

\* entry of crypto_finish_all_sessions(fcr)
finish_all_begin(t) ==
    /\ pc[t] = "idle"
    /\ op' = [op EXCEPT ![t] = "finish_all"]
    /\ pc' = [pc EXCEPT ![t] = "a_lock"]
    /\ UNCHANGED <<sem, list, ses, blk, hsh, nobj, arg, cur, ret, req, out>>

\* down(&fcr->sem)
finish_all_lock(t) ==
    /\ pc[t] = "a_lock"
    /\ sem > 0
    /\ sem' = sem - 1
    /\ pc' = [pc EXCEPT ![t] = "a_loop"]
    /\ UNCHANGED <<list, ses, blk, hsh, nobj, op, arg, cur, ret, req, out>>

\* one turn of list_for_each_entry_safe: list_del the first session and
\* enter crypto_destroy_session; at the end of the list up(&fcr->sem) and
\* return 0
finish_all_loop(t) ==
    /\ pc[t] = "a_loop"
    /\ IF list # <<>>
       THEN /\ cur' = [cur EXCEPT ![t] = Head(list)]
            /\ list' = list_del(Head(list))
            /\ ses' = [ses EXCEPT ![Head(list)].st = "unlinked"]
            /\ pc' = [pc EXCEPT ![t] = "d_down"]
            /\ UNCHANGED <<sem, ret>>
       ELSE /\ sem' = sem + 1
            /\ ret' = [ret EXCEPT ![t] = "0"]
            /\ pc' = [pc EXCEPT ![t] = "ret"]
            /\ UNCHANGED <<cur, list, ses>>
    /\ UNCHANGED <<blk, hsh, nobj, op, arg, req, out>>

(* ----------------------------- crypto_runv ----------------------------- *)

\* a provider call or a copy_to_user, made while segment seg was processed
\* (0: outside the segment loop), with the bytes passed and produced
RunCall(f, i, in, o) == [f |-> f, seg |-> i, in |-> in, out |-> o]

\* a provider call has failed: ret is its error, goto out
ProviderFailure(st, call) ==
    [st EXCEPT !.nf = @ + 1, !.calls = Append(@, call),
               !.ret = "EPROVIDER", !.exit = "out"]

\* lines 491-497 and 521-527: crypto_hash_update on the staging buffer
runv_hash(st, c, i, data) ==
    IF ~(c.S.hasH /\ "HASH" \in c.rq.segs[i].flags) THEN st
    ELSE IF c.env.failAt = st.nf + 1
        THEN ProviderFailure(st, RunCall("hash_update", i, data, <<>>))
    ELSE [st EXCEPT !.nf = @ + 1,
                    !.calls = Append(@, RunCall("hash_update", i, data, <<>>)),
                    !.h = hash_update(@, data)]

\* runv_cipher with every cipher call starting from the IV state the run
\* began with: the state a call leaves behind is dropped
runv_cipher_iv_dropped(st, c, i, data) ==
    IF ~(c.S.hasC /\ "CIPHER" \in c.rq.segs[i].flags)
        THEN [st |-> st, data |-> data]
    ELSE LET f == IF c.rq.op = "ENCRYPT" THEN "encrypt" ELSE "decrypt"
             r == IF c.rq.op = "ENCRYPT"
                  THEN blkcipher_encrypt(c.S.key, st.iv0, data)
                  ELSE blkcipher_decrypt(c.S.key, st.iv0, data)
         IN [st |-> [st EXCEPT
                       !.nf = @ + 1,
                       !.calls = @ \o <<RunCall(f, i, data, r.data),
                                        RunCall("copy_to_user", i, r.data, <<>>)>>,
                       !.dst = @ \o r.data],
             data |-> r.data]

\* runv_cipher without "dst += current_len": every chunk is copied to the
\* start of the destination
runv_cipher_dst_not_advanced(st, c, i, data) ==
    IF ~(c.S.hasC /\ "CIPHER" \in c.rq.segs[i].flags)
        THEN [st |-> st, data |-> data]
    ELSE LET f == IF c.rq.op = "ENCRYPT" THEN "encrypt" ELSE "decrypt"
             r == IF c.rq.op = "ENCRYPT"
                  THEN blkcipher_encrypt(c.S.key, st.iv, data)
                  ELSE blkcipher_decrypt(c.S.key, st.iv, data)
         IN IF c.env.failAt = st.nf + 1
            THEN [st |-> ProviderFailure(st, RunCall(f, i, data, <<>>)),
                  data |-> data]
            ELSE [st |-> [st EXCEPT
                            !.nf = @ + 1,
                            !.calls = @ \o <<RunCall(f, i, data, r.data),
                                             RunCall("copy_to_user", i, r.data, <<>>)>>,
                            !.iv = r.iv,
                            !.dst = r.data \o SubSeq(@, Len(r.data) + 1, Len(@))],
                  data |-> r.data]

\* lines 498-507 and 509-519: the cipher in place on the staging buffer,
\* then copy_to_user(dst, data, current_len); dst += current_len.
\* Returns the run state and the staging buffer as it is afterwards.
runv_cipher(st, c, i, data) ==
    IF ~(c.S.hasC /\ "CIPHER" \in c.rq.segs[i].flags)
        THEN [st |-> st, data |-> data]
    ELSE LET f == IF c.rq.op = "ENCRYPT" THEN "encrypt" ELSE "decrypt"
             r == IF c.rq.op = "ENCRYPT"
                  THEN blkcipher_encrypt(c.S.key, st.iv, data)
                  ELSE blkcipher_decrypt(c.S.key, st.iv, data)
         IN IF c.env.failAt = st.nf + 1
            THEN [st |-> ProviderFailure(st, RunCall(f, i, data, <<>>)),
                  data |-> data]
            ELSE [st |-> [st EXCEPT
                            !.nf = @ + 1,
                            !.calls = @ \o <<RunCall(f, i, data, r.data),
                                             RunCall("copy_to_user", i, r.data, <<>>)>>,
                            !.iv = r.iv,
                            !.dst = @ \o r.data],
                  data |-> r.data]

\* runv_chunk with one order for both directions: the cipher, then the hash
\* of what the cipher left in the staging buffer
runv_chunk_cipher_first(st, c, i, data) ==
    LET r == runv_cipher(st, c, i, data)
    IN IF r.st.exit # "none" THEN r.st ELSE runv_hash(r.st, c, i, r.data)

\* lines 481-531: one chunk. Hash before encryption, after decryption.
runv_chunk(st, c, i, data) ==
    IF c.rq.op = "ENCRYPT"
    THEN LET s1 == runv_hash(st, c, i, data)
         IN IF s1.exit # "none" THEN s1 ELSE runv_cipher(s1, c, i, data).st
    ELSE LET r == runv_cipher(st, c, i, data)
         IN IF r.st.exit # "none" THEN r.st ELSE runv_hash(r.st, c, i, r.data)

\* runv_while without the goto out: after a failed call the loop goes on
\* with the next chunk
RECURSIVE runv_while_no_abort(_, _, _, _, _)
runv_while_no_abort(st, c, i, src, bufsize) ==
    IF ~(Len(src) > 0) THEN st
    ELSE LET current_len == IF Len(src) > bufsize THEN bufsize ELSE Len(src)
             s0 == [st EXCEPT !.exit = "none"]
             s1 == runv_chunk(s0, c, i, SubSeq(src, 1, current_len))
             s2 == IF st.exit # "none"
                   THEN [s1 EXCEPT !.exit = st.exit, !.ret = st.ret]
                   ELSE s1
         IN runv_while_no_abort(s2, c, i,
                                SubSeq(src, current_len + 1, Len(src)), bufsize)

\* lines 480-532: while (nbytes > 0), src being what is left of the segment
RECURSIVE runv_while(_, _, _, _, _)
runv_while(st, c, i, src, bufsize) ==
    IF ~(Len(src) > 0) THEN st
    ELSE LET current_len == IF Len(src) > bufsize THEN bufsize ELSE Len(src)
             s1 == runv_chunk(st, c, i, SubSeq(src, 1, current_len))
         IN IF s1.exit # "none" THEN s1
            ELSE runv_while(s1, c, i, SubSeq(src, current_len + 1, Len(src)),
                            bufsize)

\* runv_for without the test of nbytes against the block size
RECURSIVE runv_for_unchecked(_, _, _)
runv_for_unchecked(st, c, i) ==
    IF i > Len(c.rq.segs) THEN st
    ELSE LET s1 == runv_while(st, c, i, c.rq.segs[i].src,
                              Min(PAGE_SIZE, Len(c.rq.segs[i].src)))
         IN IF s1.exit # "none" THEN s1 ELSE runv_for_unchecked(s1, c, i + 1)

\* lines 465-544: for (i = 0; i < copv->iovec_cnt; i++), from segment i on
RECURSIVE runv_for(_, _, _)
runv_for(st, c, i) ==
    IF i > Len(c.rq.segs) THEN st
    ELSE LET nbytes == Len(c.rq.segs[i].src)
             blocksize == IF c.S.hasC THEN Blocksize ELSE 1
         IN IF c.S.hasC /\ "CIPHER" \in c.rq.segs[i].flags
               /\ nbytes % blocksize # 0
            THEN [st EXCEPT !.ret = "EINVAL", !.exit = "out_unlock"]
            ELSE LET s1 == runv_while(st, c, i, c.rq.segs[i].src,
                                      Min(PAGE_SIZE, nbytes))
                 IN IF s1.exit # "none" THEN s1 ELSE runv_for(s1, c, i + 1)

\* lines 546-554: crypto_hash_final and copy_to_user(copv->mac, ...)
runv_final(st, c) ==
    IF st.exit # "none" \/ ~c.S.hasH THEN st
    ELSE IF c.env.failAt = st.nf + 1
        THEN ProviderFailure(st, RunCall("hash_final", 0, <<>>, <<>>))
    ELSE [st EXCEPT !.nf = @ + 1,
                    !.calls = @ \o <<RunCall("hash_final", 0, <<>>, <<st.h>>),
                                     RunCall("copy_to_user_mac", 0, <<st.h>>, <<>>)>>,
                    !.mac = <<st.h>>]

\* out: free_page((unsigned long)data), reached by falling through or by
\* goto out; goto out_unlock jumps over it
runv_out(st) ==
    IF st.exit = "out_unlock" THEN st
    ELSE [st EXCEPT !.pages = @ - 1, !.exit = "out"]

\* runv_init with the cipher's IV state cleared when the request brings no
\* IV
runv_init_iv_cleared(c) ==
    LET iv == IF c.S.hasC /\ c.rq.iv = <<>> THEN Zeros(Blocksize) ELSE c.S.iv
        s0 == [NoOut EXCEPT !.iv = iv, !.iv0 = iv]
    IN IF c.env.pageFail
       THEN [s0 EXCEPT !.ret = "ENOMEM", !.exit = "out_unlock"]
       ELSE LET s1 == [s0 EXCEPT !.pages = 1]
                s2 == IF ~c.S.hasH THEN s1
                      ELSE IF c.env.failAt = 1
                      THEN [s1 EXCEPT !.nf = 1,
                               !.calls = <<RunCall("hash_init", 0, <<>>, <<>>)>>,
                               !.ret = "EPROVIDER", !.exit = "out_unlock"]
                      ELSE [s1 EXCEPT !.nf = 1,
                               !.calls = <<RunCall("hash_init", 0, <<>>, <<>>)>>,
                               !.h = 0]
            IN IF s2.exit = "none" /\ c.S.hasC /\ c.rq.iv # <<>>
               THEN [s2 EXCEPT !.calls = Append(@, RunCall("set_iv", 0, c.rq.iv, <<>>)),
                               !.iv = c.rq.iv, !.iv0 = c.rq.iv]
               ELSE s2

\* lines 434-461: the staging page, crypto_hash_init, the IV
runv_init(c) ==
    LET s0 == [NoOut EXCEPT !.iv = c.S.iv, !.iv0 = c.S.iv]
    IN IF c.env.pageFail
       THEN [s0 EXCEPT !.ret = "ENOMEM", !.exit = "out_unlock"]
       ELSE LET s1 == [s0 EXCEPT !.pages = 1]
                s2 == IF ~c.S.hasH THEN s1
                      ELSE IF c.env.failAt = 1
                      THEN [s1 EXCEPT !.nf = 1,
                               !.calls = <<RunCall("hash_init", 0, <<>>, <<>>)>>,
                               !.ret = "EPROVIDER", !.exit = "out_unlock"]
                      ELSE [s1 EXCEPT !.nf = 1,
                               !.calls = <<RunCall("hash_init", 0, <<>>, <<>>)>>,
                               !.h = 0]
            IN IF s2.exit = "none" /\ c.S.hasC /\ c.rq.iv # <<>>
               THEN [s2 EXCEPT !.calls = Append(@, RunCall("set_iv", 0, c.rq.iv, <<>>)),
                               !.iv = c.rq.iv, !.iv0 = c.rq.iv]
               ELSE s2

\* lines 463-557: the segment loop, the digest, the out: label
runv_segments(st, c) ==
    IF st.exit # "none" THEN st
    ELSE runv_out(runv_final(runv_for(st, c, 1), c))

\* what the kernel can answer during one run: __get_free_page fails, the
\* failAt-th provider call that can fail does (0: none)
RunEnvs(maxFail) == [pageFail : BOOLEAN, failAt : 0..maxFail]
RunOk == [pageFail |-> FALSE, failAt |-> 0]

\* a pointer that is not a session: the list head read as one, or a session
\* that has been kfree()d
Dangling(o) == IF o = HeadAsSession THEN TRUE ELSE ses[o].st = "freed"

\* bdesc.tfm, hdesc.tfm and the cipher state as read through ses_ptr. Read
\* through the list head they lie behind the struct fcrypt: here both NULL
\* (any other content ends the thread, see runv_enter)
SessionView(S, o) ==
    IF o = HeadAsSession
    THEN [hasC |-> FALSE, hasH |-> FALSE, key |-> 0, iv |-> <<>>]
    ELSE [hasC |-> S[o].tfm # "NULL", hasH |-> S[o].hash_tfm # "NULL",
          key |-> S[o].key, iv |-> S[o].iv]

\* the cipher's IV state of session o as the run state st leaves it
WithIV(S, o, st) ==
    IF o \in Objs /\ st.iv # <<>> THEN [S EXCEPT ![o].iv = st.iv] ELSE S

\* up(&ses_ptr->sem). The semaphore of the list head read as a session is
\* fcr->sem: both structs start with a list_head followed by a semaphore
UpSession(S, o) == IF o \in Objs THEN [S EXCEPT ![o].sem = @ + 1] ELSE S
UpTable(s, o) == IF o = HeadAsSession THEN s + 1 ELSE s

\* entry of crypto_runv(fcr, copv): lines 423-426
runv_begin(t, sids, Reqs) ==
    /\ pc[t] = "idle"
    /\ \E sid \in sids, rq \in Reqs :
         /\ arg' = [arg EXCEPT ![t] = sid]
         /\ req' = [req EXCEPT ![t] = rq]
         /\ IF rq.op \notin {"ENCRYPT", "DECRYPT"}
            THEN /\ pc' = [pc EXCEPT ![t] = "ret"]
                 /\ ret' = [ret EXCEPT ![t] = "EINVAL"]
            ELSE /\ pc' = [pc EXCEPT ![t] = "g_lock"]
                 /\ ret' = ret
    /\ op' = [op EXCEPT ![t] = "runv"]
    /\ UNCHANGED <<sem, list, ses, blk, hsh, nobj, cur, out>>

\* crypto_runv from the return of crypto_get_session_by_sid with ses_ptr = o
\* (S, s: the sessions and fcr->sem at that point) to the segment loop:
\* "if (!ses_ptr) return -EINVAL", then lines 434-461. An early exit goes
\* through out_unlock. Through a dangling ses_ptr the two handles are
\* whatever the memory holds: NULL, or something that is not a handle, and
\* the provider call on it ends the thread
runv_enter(t, o, S, s, Envs) ==
    IF o = NullPtr
    THEN /\ pc' = [pc EXCEPT ![t] = "ret"]
         /\ ret' = [ret EXCEPT ![t] = "EINVAL"]
         /\ ses' = S
         /\ sem' = s
         /\ out' = out
    ELSE \/ \E env \in Envs :
              LET st == runv_init([S |-> SessionView(S, o), rq |-> req[t],
                                   env |-> env])
              IN /\ out' = [out EXCEPT ![t] = st]
                 /\ ret' = [ret EXCEPT ![t] = st.ret]
                 /\ IF st.exit = "none"
                    THEN /\ pc' = [pc EXCEPT ![t] = "r_segs"]
                         /\ ses' = WithIV(S, o, st)
                         /\ sem' = s
                    ELSE /\ UpTable(s, o) <= MaxSem
                         /\ pc' = [pc EXCEPT ![t] = "ret"]
                         /\ ses' = UpSession(S, o)
                         /\ sem' = UpTable(s, o)
         \/ /\ Dangling(o)
            /\ out' = [out EXCEPT ![t] =
                         [NoOut EXCEPT !.pages = 1,
                            !.calls = <<RunCall("invalid_handle", 0, <<>>, <<>>)>>]]
            /\ pc' = [pc EXCEPT ![t] = "oops"]
            /\ ses' = S
            /\ sem' = s
            /\ ret' = ret

\* crypto_get_session_by_sid: down(&fcr->sem), list_for_each_entry up to
\* the match. With no match the cursor ends as the list head read as a
\* session; up(&fcr->sem); return ses_ptr
get_lock(t, Envs) ==
    /\ pc[t] = "g_lock"
    /\ sem > 0
    /\ LET o == FirstMatch(arg[t])
       IN /\ cur' = [cur EXCEPT ![t] = o]
          /\ IF o # HeadAsSession
             THEN /\ sem' = sem - 1
                  /\ pc' = [pc EXCEPT ![t] = "g_down"]
                  /\ UNCHANGED <<ses, ret, out>>
             ELSE runv_enter(t, o, ses, sem, Envs)
    /\ UNCHANGED <<list, blk, hsh, nobj, op, arg, req>>

\* get_down with a down_trylock whose result is ignored in place of the
\* down: the caller goes on whether or not it got the semaphore
get_down_no_wait(t, Envs) ==
    /\ pc[t] = "g_down"
    /\ runv_enter(t, cur[t],
                  [ses EXCEPT ![cur[t]].sem = IF @ > 0 THEN @ - 1 ELSE 0],
                  sem + 1, Envs)
    /\ UNCHANGED <<list, blk, hsh, nobj, op, arg, cur, req>>

\* crypto_get_session_by_sid: down(&ses_ptr->sem) with fcr->sem held, then
\* break; up(&fcr->sem); return ses_ptr. On a session that has been freed
\* meanwhile the down reads freed memory: the thread faults, or finds the
\* count as it was left
get_down(t, Envs) ==
    /\ pc[t] = "g_down"
    /\ \/ /\ ses[cur[t]].sem > 0
          /\ runv_enter(t, cur[t], [ses EXCEPT ![cur[t]].sem = @ - 1],
                        sem + 1, Envs)
       \/ /\ ses[cur[t]].st = "freed"
          /\ pc' = [pc EXCEPT ![t] = "oops"]
          /\ UNCHANGED <<sem, ses, ret, out>>
    /\ UNCHANGED <<list, blk, hsh, nobj, op, arg, cur, req>>

\* crypto_runv lines 463-562: the segment loop, the digest, out: and
\* out_unlock: up(&ses_ptr->sem); return ret
runv_segments_step(t, Envs) ==
    /\ pc[t] = "r_segs"
    /\ UpTable(sem, cur[t]) <= MaxSem
    /\ \E env \in Envs :
         LET st == runv_segments(out[t], [S |-> SessionView(ses, cur[t]),
                                          rq |-> req[t], env |-> env])
         IN /\ out' = [out EXCEPT ![t] = st]
            /\ ret' = [ret EXCEPT ![t] = st.ret]
            /\ ses' = UpSession(WithIV(ses, cur[t], st), cur[t])
    /\ sem' = UpTable(sem, cur[t])
    /\ pc' = [pc EXCEPT ![t] = "ret"]
    /\ UNCHANGED <<list, blk, hsh, nobj, op, arg, cur, req>>

(* --------------------------- specifications ---------------------------- *)

\* the session descriptions the concurrent specifications create
SmallSops == {[cipher |-> "DES_CBC", mac |-> "SHA1", keylen |-> 1,
               mackeylen |-> 0]}

\* the requests the concurrent specification runs: one hashed segment
SmallReqs == {[op |-> "ENCRYPT", iv |-> <<>>,
               segs |-> <<[src |-> <<1, 0>>, flags |-> {"HASH"}]>>]}

TableStep(t, Sops, Envs, limit) ==
    \/ create_begin(t, Sops, Envs, limit)
    \/ create_lock(t)
    \/ create_scan(t)
    \/ create_add(t)
    \/ finish_begin(t)
    \/ finish_lock(t)
    \/ destroy_down(t)
    \/ finish_all_begin(t)
    \/ finish_all_lock(t)
    \/ finish_all_loop(t)
    \/ Return(t)

RunStep(t, sids, Reqs, Envs) ==
    \/ runv_begin(t, sids, Reqs)
    \/ get_lock(t, Envs)
    \/ get_down(t, Envs)
    \/ runv_segments_step(t, Envs)

NextTable == \E t \in Threads : TableStep(t, SmallSops, {AllOk}, MaxObj)

\* create_session, destroy_session and destroy_all calls only
SpecTable == Init /\ [][NextTable]_vars

Next ==
    \E t \in Threads :
        TableStep(t, SmallSops, {AllOk}, MaxObj)
            \/ RunStep(t, Sids, SmallReqs, {RunOk})

\* every operation, from every thread
Spec == Init /\ [][Next]_vars

\* the steps of thread t inside a call it has entered
ThreadStep(t) ==
    \/ create_lock(t)
    \/ create_scan(t)
    \/ create_add(t)
    \/ finish_lock(t)
    \/ destroy_down(t)
    \/ finish_all_lock(t)
    \/ finish_all_loop(t)
    \/ Return(t)
    \/ get_lock(t, {RunOk})
    \/ get_down(t, {RunOk})
    \/ runv_segments_step(t, {RunOk})

\* every operation from every thread, under fair scheduling: a thread that
\* is inside a call and can go on again and again does go on (a waiter on a
\* semaphore is woken when its turn comes); no thread has to enter a call
SpecLive == Init /\ [][Next]_vars /\ \A t \in Threads : SF_vars(ThreadStep(t))

\* the session descriptions of the sequential specification: a cipher and
\* a hash, a cipher alone, a hash alone
SeqSops == {[cipher |-> "DES_CBC", mac |-> "SHA1", keylen |-> 1, mackeylen |-> 0],
            [cipher |-> "DES_CBC", mac |-> "NONE", keylen |-> 1, mackeylen |-> 0],
            [cipher |-> "NONE", mac |-> "SHA1_HMAC", keylen |-> 0, mackeylen |-> 1]}

\* the requests of the sequential specification: every sequence of at most
\* MaxSegs segments, each with one of the flag sets, with and without an
\* IV, in both directions, and one with a bad op. The segment lengths: none,
\* less than a block, a block, a page, a page and a byte, a page and a block
SegLens == {0, 1, Blocksize, PAGE_SIZE, PAGE_SIZE + 1, PAGE_SIZE + Blocksize}
SegData(n) == [j \in 1..n |-> j % ByteMod]
Segments == [src : {SegData(n) : n \in SegLens},
             flags : {{"CIPHER"}, {"HASH"}, {"CIPHER", "HASH"}}]
SegSeqs == UNION {[1..n -> Segments] : n \in 0..MaxSegs}
SeqReqs == [op : {"ENCRYPT", "DECRYPT"},
            iv : {<<>>, [j \in 1..Blocksize |-> j % ByteMod]},
            segs : SegSeqs]
           \cup {[op |-> "BAD", iv |-> <<>>, segs |-> <<>>]}

NextSeq ==
    \/ create_begin(1, SeqSops, {AllOk}, SeqMaxObj)
    \/ create_lock(1)
    \/ create_add(1)
    \/ Return(1)
    \/ RunStep(1, {1}, SeqReqs, RunEnvs(MaxFail))

\* one thread, one session, every request: crypto_create_session, then
\* crypto_runv calls with session id 1
SpecSeq == Init /\ [][NextSeq]_vars

NextCreate == TableStep(1, SessionOps, CreateEnvs, MaxObj)

\* one thread, every session description and every answer of the kernel in
\* crypto_create_session; no crypto_runv
SpecCreate == Init /\ [][NextCreate]_vars

(* ------------------------------- claims -------------------------------- *)

\* a thread is inside crypto_runv between the down and the up of the
\* semaphore of the session it has looked up
InRun(t) == op[t] = "runv" /\ pc[t] = "r_segs"

C3_DrainOnDelete ==
    \A t \in Threads :
        (op[t] = "runv" /\ pc[t] \in {"g_down", "r_segs"} /\ cur[t] \in Objs)
            => ses[cur[t]].st # "freed"

\* a session that has been inserted is gone for good: freed, with each of
\* its handles released once
Released(k) ==
    /\ ses[k].st \in {"none", "new", "freed"}
    /\ ses[k].st = "freed" => /\ blk[k] \in {"none", "freed"}
                              /\ hsh[k] \in {"none", "freed"}

\* no handle has been freed twice; where destroy_all is about to return
\* the table is empty and every session that was inserted is released
C4_AllReleased ==
    /\ \A k \in Objs : blk[k] # "dfreed" /\ hsh[k] # "dfreed"
    /\ \A t \in Threads :
         (op[t] = "finish_all" /\ pc[t] = "a_loop" /\ list = <<>>)
             => \A k \in Objs : Released(k)

\* the step in which destroy_all returns leaves the table empty; when the
\* call has destroyed nothing it changes nothing but the table lock, which
\* it gives back
C4_ReturnStep ==
    \A t \in Threads :
        (op[t] = "finish_all" /\ pc[t] = "a_loop" /\ pc'[t] = "ret") =>
            /\ list' = <<>>
            /\ \A k \in Objs : Released(k)'
            /\ ret'[t] = "0"
            /\ cur[t] = NullPtr =>
                 /\ UNCHANGED <<list, ses, blk, hsh, nobj>>
                 /\ sem' = sem + 1

C5_ErrorReleasesAll ==
    \A t \in Threads :
        (op[t] = "create" /\ pc[t] = "ret" /\ ret[t] # "0") =>
            /\ blk[cur[t]] # "alloc"
            /\ hsh[cur[t]] # "alloc"
            /\ ses[cur[t]].st = "none"
            /\ \A i \in 1..Len(list) : list[i] # cur[t]

\* C6: destroy_session with an id that is not in the table returns
\* -ENOENT; a return of 0 means a session was found and destroyed.
C6_UnknownIdIsENOENT ==
    \A t \in Threads :
        (op[t] = "finish" /\ pc[t] = "ret") =>
            /\ cur[t] = HeadAsSession => ret[t] = "ENOENT"
            /\ ret[t] = "0" => cur[t] \in Objs

\* C7: a run whose id matches no session in the table returns an error
\* at once: it makes no provider call, writes nothing, holds no staging
\* page and releases no lock (the table lock keeps its count of at most 1).
C7_UnknownIdRejected ==
    /\ sem <= 1
    /\ \A t \in Threads :
         (op[t] = "runv" /\ cur[t] = HeadAsSession) =>
             /\ pc[t] = "ret"
             /\ ret[t] \in {"EINVAL", "ENOENT"}
             /\ out[t] = NoOut

\* the thread holds fcr->sem
HoldsTable(t) == pc[t] \in {"c_scan", "c_add", "d_down", "a_loop", "g_down"}

\* the thread is blocked in down(&ses_ptr->sem) on session o, which a run
\* holds
BlockedOn(t, o) ==
    /\ pc[t] \in {"g_down", "d_down"}
    /\ cur[t] = o
    /\ ses[o].sem = 0

\* the thread is at down(&fcr->sem) in a call that has nothing to do with
\* the session o: a create, or a run or destroy of another id
WaitsForTable(t, o) ==
    \/ pc[t] = "c_lock"
    \/ pc[t] \in {"f_lock", "g_lock"} /\ arg[t] # ses[o].sid

\* C8: while a run on session A is in progress, a call on another session
\* is never made to wait for it: it is never the case that such a call is
\* stopped at the table lock while every holder of the table lock is
\* itself waiting for A's run to end.
C8_OthersNotBlocked ==
    \A r, x \in Threads :
        (InRun(r) /\ cur[r] \in Objs /\ x # r /\ WaitsForTable(x, cur[r])) =>
            ~ /\ sem = 0
              /\ \A h \in Threads : HoldsTable(h) => BlockedOn(h, cur[r])

\* a crypto_runv call on a session of the table has returned
RunReturned(t) == op[t] = "runv" /\ pc[t] = "ret" /\ cur[t] \in Objs

\* the segment asks for the cipher and is not a whole number of blocks
Misaligned(seg) == "CIPHER" \in seg.flags /\ Len(seg.src) % Blocksize # 0

\* the first misaligned segment of a request, 0 when there is none
FirstMisaligned(segs) ==
    IF \E i \in 1..Len(segs) : Misaligned(segs[i])
    THEN CHOOSE i \in 1..Len(segs) :
             /\ Misaligned(segs[i])
             /\ \A j \in 1..(i - 1) : ~Misaligned(segs[j])
    ELSE 0

\* the bytes of the segments before segment k that ask for the cipher, in
\* segment order
CipherInput(segs, k) ==
    Concat([i \in 1..(k - 1) |->
               IF "CIPHER" \in segs[i].flags THEN segs[i].src ELSE <<>>])

\* C9: in a run on a session with a cipher, a segment that asks for the
\* cipher and is not a whole number of blocks is rejected with an error
\* before any provider call is made for it and before any of it is written:
\* the destination holds what the segments before it produced, no more.
C9_MisalignedRejected ==
    \A t \in Threads :
        (RunReturned(t) /\ ses[cur[t]].tfm # "NULL"
                        /\ FirstMisaligned(req[t].segs) # 0) =>
            LET k == FirstMisaligned(req[t].segs)
                calls == out[t].calls
            IN /\ ret[t] # "0"
               /\ \A j \in 1..Len(calls) : calls[j].seg < k
               /\ Len(out[t].dst) <= Len(CipherInput(req[t].segs, k))
               /\ ret[t] = "EINVAL" =>
                      Len(out[t].dst) = Len(CipherInput(req[t].segs, k))
               /\ out[t].mac = <<>>

\* C9 witness: a run has returned -EINVAL at its second segment after its
\* first segment went through the cipher and was written out
C9_RejectedSecond ==
    \E t \in Threads :
        /\ RunReturned(t) /\ ses[cur[t]].tfm # "NULL"
        /\ FirstMisaligned(req[t].segs) = 2
        /\ ret[t] = "EINVAL"
        /\ Len(out[t].dst) > 0

\* a is the beginning of b
IsPrefix(a, b) == Len(a) <= Len(b) /\ a = SubSeq(b, 1, Len(a))

\* the plaintext of segment i of the run thread t has returned from: the
\* source itself, or for a decrypted segment its part of the decryption,
\* as one message from the IV the run started with, of all the bytes the
\* request sends through the cipher
PlainOf(t, i) ==
    LET segs == req[t].segs
        seg == segs[i]
        all == CipherInput(segs, Len(segs) + 1)
        off == Len(CipherInput(segs, i))
    IN IF ses[cur[t]].tfm # "NULL" /\ "CIPHER" \in seg.flags
          /\ req[t].op = "DECRYPT"
       THEN SubSeq(blkcipher_decrypt(ses[cur[t]].key, out[t].iv0, all).data,
                   off + 1, off + Len(seg.src))
       ELSE seg.src

\* the plaintext of the segments that ask for the hash, in segment order
HashedPlain(t) ==
    Concat([i \in 1..Len(req[t].segs) |->
               IF "HASH" \in req[t].segs[i].flags THEN PlainOf(t, i) ELSE <<>>])

\* the bytes passed to crypto_hash_update, in call order
HashFed(calls) ==
    Concat([j \in 1..Len(calls) |->
               IF calls[j].f = "hash_update" THEN calls[j].in ELSE <<>>])

\* C10: on a session with a hash (and a cipher), every chunk that is both
\* hashed and encrypted is passed to hash-update before it is encrypted,
\* and every chunk that is both decrypted and hashed is passed to
\* hash-update as the decryption left it; the bytes fed to the hash are the
\* plaintext of the hash-flagged segments in order, and the digest of a run
\* that succeeds is the digest of that plaintext.
C10_HashSeesPlaintext ==
    \A t \in Threads :
        (RunReturned(t) /\ ses[cur[t]].hash_tfm # "NULL") =>
            LET calls == out[t].calls
                segs == req[t].segs
            IN /\ \A j \in 1..Len(calls) :
                    (calls[j].f = "encrypt" /\ "HASH" \in segs[calls[j].seg].flags)
                        => /\ j > 1
                           /\ calls[j - 1].f = "hash_update"
                           /\ calls[j - 1].seg = calls[j].seg
                           /\ calls[j - 1].in = calls[j].in
               /\ \A j \in 1..Len(calls) :
                    (calls[j].f = "decrypt" /\ "HASH" \in segs[calls[j].seg].flags
                                            /\ j < Len(calls))
                        => /\ j + 2 <= Len(calls)
                           /\ calls[j + 1].f = "copy_to_user"
                           /\ calls[j + 2].f = "hash_update"
                           /\ calls[j + 2].seg = calls[j].seg
                           /\ calls[j + 2].in = calls[j].out
               /\ IsPrefix(HashFed(calls), HashedPlain(t))
               /\ ret[t] = "0" =>
                    /\ HashFed(calls) = HashedPlain(t)
                    /\ out[t].mac = <<Digest(HashedPlain(t))>>

\* C10 witness: a decrypting run on a cipher and hash session has succeeded
\* on a segment of more than a page that asks for both
C10_BothOnLongSegment ==
    \E t \in Threads :
        /\ RunReturned(t) /\ ret[t] = "0"
        /\ ses[cur[t]].tfm # "NULL" /\ ses[cur[t]].hash_tfm # "NULL"
        /\ req[t].op = "DECRYPT"
        /\ \E i \in 1..Len(req[t].segs) :
             /\ req[t].segs[i].flags = {"CIPHER", "HASH"}
             /\ Len(req[t].segs[i].src) > PAGE_SIZE
        /\ out[t].mac # <<>>

\* a whole crypto_runv call past the lookup, with no failure of the kernel,
\* on a session seen as S
WholeRun(S, rq) ==
    LET c == [S |-> S, rq |-> rq, env |-> RunOk]
    IN runv_segments(runv_init(c), c)

\* the session of thread t as a later run finds it
SessionAfter(t) ==
    [hasC |-> ses[cur[t]].tfm # "NULL", hasH |-> ses[cur[t]].hash_tfm # "NULL",
     key |-> ses[cur[t]].key, iv |-> out[t].iv]

\* the request that decrypts what the run of thread t has written, with the
\* IV that run started from: cut where the encrypting request was cut, or
\* as one segment
DecryptSame(t) ==
    [op |-> "DECRYPT", iv |-> out[t].iv0,
     segs |-> [i \in 1..Len(req[t].segs) |->
                 [src |-> IF "CIPHER" \in req[t].segs[i].flags
                          THEN SubSeq(out[t].dst,
                                      Len(CipherInput(req[t].segs, i)) + 1,
                                      Len(CipherInput(req[t].segs, i + 1)))
                          ELSE <<>>,
                  flags |-> {"CIPHER"}]]]
DecryptWhole(t) ==
    [op |-> "DECRYPT", iv |-> out[t].iv0,
     segs |-> <<[src |-> out[t].dst, flags |-> {"CIPHER"}]>>]

\* C11: what an encrypting run on a session with a cipher has written,
\* decrypted by a run with the same key and the IV the encryption started
\* from, is the original data of the cipher segments: whether the
\* decryption is cut into the same segments or is one segment, and also
\* when a segment is longer than the staging page.
C11_RoundTrip ==
    \A t \in Threads :
        (RunReturned(t) /\ ret[t] = "0" /\ req[t].op = "ENCRYPT"
                        /\ ses[cur[t]].tfm # "NULL") =>
            LET plain == CipherInput(req[t].segs, Len(req[t].segs) + 1)
                same == WholeRun(SessionAfter(t), DecryptSame(t))
                whole == WholeRun(SessionAfter(t), DecryptWhole(t))
            IN /\ Len(out[t].dst) = Len(plain)
               /\ same.ret = "0" /\ same.dst = plain
               /\ whole.ret = "0" /\ whole.dst = plain

\* C11 witness: an encrypting run has succeeded on two cipher segments, the
\* first longer than the staging page, and what it wrote is not what it
\* read
C11_LongEncrypted ==
    \E t \in Threads :
        /\ RunReturned(t) /\ ret[t] = "0" /\ req[t].op = "ENCRYPT"
        /\ ses[cur[t]].tfm # "NULL"
        /\ Len(req[t].segs) = 2
        /\ "CIPHER" \in req[t].segs[1].flags /\ "CIPHER" \in req[t].segs[2].flags
        /\ Len(req[t].segs[1].src) > PAGE_SIZE
        /\ Len(req[t].segs[2].src) > 0
        /\ out[t].dst # CipherInput(req[t].segs, 3)

\* session o holds a cipher handle, or a hash handle, that is allocated
OwnsHandle(o) ==
    \/ ses[o].tfm # "NULL" /\ blk[o] = "alloc"
    \/ ses[o].hash_tfm # "NULL" /\ hsh[o] = "alloc"

\* C12: every session in the table owns at least one transform handle, a
\* cipher or a hash, that has not been freed; create_session never inserts
\* a session with neither.
C12_OwnsHandle ==
    \A i \in 1..Len(list) : OwnsHandle(list[i])

\* C12 witness: the table holds a session with a hash and no cipher and a
\* session with a cipher and no hash
C12_OneOfEach ==
    \E i, j \in 1..Len(list) :
        /\ ses[list[i]].tfm = "NULL" /\ ses[list[i]].hash_tfm # "NULL"
        /\ ses[list[j]].tfm # "NULL" /\ ses[list[j]].hash_tfm = "NULL"

\* C13: the table lock is never held by a thread that is blocked waiting
\* for a session lock: no thread that holds fcr->sem is stopped in
\* down(&ses_ptr->sem) on a session whose semaphore is taken.
C13_TableLockNotHeldBlocked ==
    \A t \in Threads :
        HoldsTable(t) => \A o \in Objs : ~BlockedOn(t, o)

\* segment i of the request of thread t asks for a transform the session
\* does not have
Mismatch(t, i) ==
    \/ "CIPHER" \in req[t].segs[i].flags /\ ses[cur[t]].tfm = "NULL"
    \/ "HASH" \in req[t].segs[i].flags /\ ses[cur[t]].hash_tfm = "NULL"

\* C14: a run with a segment that asks for the cipher on a session without
\* a cipher, or for the hash on a session without a hash, returns an error,
\* and makes no provider call and writes nothing for that segment.
C14_MismatchRejected ==
    \A t \in Threads :
        RunReturned(t) =>
            \A i \in 1..Len(req[t].segs) :
                Mismatch(t, i) =>
                    /\ ret[t] # "0"
                    /\ \A j \in 1..Len(out[t].calls) : out[t].calls[j].seg # i

\* C15: a run that has returned holds no staging page: the page it got
\* from __get_free_page has been given back exactly once, on success and on
\* every error path.
C15_StagingReleased ==
    \A t \in Threads :
        RunReturned(t) => out[t].pages = 0

\* the positions of the cipher calls in a call log
CipherCalls(calls) ==
    {j \in 1..Len(calls) : calls[j].f \in {"encrypt", "decrypt"}}

\* the step in which a run takes its session's lock and reaches the segment
\* loop: the IV state it will start from is the IV of the request when
\* there is one and the session has a cipher, and otherwise what the
\* session held, which is what the previous run left
C16_EnterStep ==
    \A t \in Threads :
        (op[t] = "runv" /\ pc[t] = "g_down" /\ pc'[t] = "r_segs") =>
            /\ out'[t].iv0 = IF req[t].iv # <<>> /\ ses[cur[t]].tfm # "NULL"
                             THEN req[t].iv
                             ELSE ses[cur[t]].iv
            /\ req[t].iv = <<>> => ses'[cur[t]].iv = ses[cur[t]].iv

\* a run that has returned: its first cipher call, when it did not fail,
\* produced what the cipher produces from that starting IV state; the
\* session keeps the IV state the run ended with; on a session without a
\* cipher an IV in the request sets nothing and changes no result
C16_Returned ==
    \A t \in Threads :
        RunReturned(t) =>
            LET calls == out[t].calls
                first == CHOOSE j \in CipherCalls(calls) :
                             \A i \in CipherCalls(calls) : j <= i
            IN /\ (CipherCalls(calls) # {} /\ calls[first].out # <<>>) =>
                    calls[first].out =
                        IF req[t].op = "ENCRYPT"
                        THEN blkcipher_encrypt(ses[cur[t]].key, out[t].iv0,
                                               calls[first].in).data
                        ELSE blkcipher_decrypt(ses[cur[t]].key, out[t].iv0,
                                               calls[first].in).data
               /\ (ses[cur[t]].tfm # "NULL" /\ out[t].exit = "out") =>
                    ses[cur[t]].iv = out[t].iv
               /\ ses[cur[t]].tfm = "NULL" =>
                    /\ \A j \in 1..Len(calls) : calls[j].f # "set_iv"
                    /\ ses[cur[t]].iv = <<>>
                    /\ ret[t] = "0" =>
                         LET plain == WholeRun(SessionAfter(t),
                                               [req[t] EXCEPT !.iv = <<>>])
                         IN out[t].mac = plain.mac /\ out[t].dst = plain.dst

\* C16: a run that supplies an IV starts its first cipher call from that
\* IV, whatever earlier runs left; a run that supplies none leaves the
\* cipher's IV state alone before its first cipher call and so continues
\* from what the previous run on the session left; on a hash-only session
\* a supplied IV has no effect.
C16_IVPriming == []C16_Returned /\ [][C16_EnterStep]_vars

\* C16 witness: a run without an IV has made a cipher call starting from an
\* IV state that an earlier run left (not the state of a fresh handle), and
\* has returned
C16_Continued ==
    \E t \in Threads :
        /\ RunReturned(t) /\ ret[t] = "0"
        /\ req[t].iv = <<>>
        /\ CipherCalls(out[t].calls) # {}
        /\ out[t].iv0 # Zeros(Blocksize)

\* the output of the encrypt and decrypt calls of a call log, in call order
CipherOutput(calls) ==
    Concat([j \in 1..Len(calls) |->
               IF calls[j].f \in {"encrypt", "decrypt"} THEN calls[j].out
               ELSE <<>>])

\* what the cipher makes, as one message from the IV state the run started
\* with, of the bytes the request sends through the cipher
CipherResult(t) ==
    LET all == CipherInput(req[t].segs, Len(req[t].segs) + 1)
    IN IF req[t].op = "ENCRYPT"
       THEN blkcipher_encrypt(ses[cur[t]].key, out[t].iv0, all).data
       ELSE blkcipher_decrypt(ses[cur[t]].key, out[t].iv0, all).data

\* C17: after a successful run on a session with a cipher the destination
\* holds as many bytes as the cipher segments are long in all, namely the
\* cipher's output for those segments one after the other in segment
\* order; a segment without the cipher flag writes nothing to the
\* destination and leaves the cursor where it was.
C17_DestinationBytes ==
    \A t \in Threads :
        (RunReturned(t) /\ ret[t] = "0" /\ ses[cur[t]].tfm # "NULL") =>
            LET segs == req[t].segs
                calls == out[t].calls
            IN /\ Len(out[t].dst) = Len(CipherInput(segs, Len(segs) + 1))
               /\ out[t].dst = CipherResult(t)
               /\ out[t].dst = CipherOutput(calls)
               /\ \A j \in 1..Len(calls) :
                    calls[j].f = "copy_to_user" =>
                        "CIPHER" \in segs[calls[j].seg].flags
               /\ \A i \in 1..Len(segs) :
                    SubSeq(out[t].dst, Len(CipherInput(segs, i)) + 1,
                                       Len(CipherInput(segs, i + 1)))
                      = Concat([j \in 1..Len(calls) |->
                                  IF calls[j].f = "copy_to_user" /\ calls[j].seg = i
                                  THEN calls[j].in ELSE <<>>])

\* C17 witness: a run has succeeded on a hash-only segment followed by a
\* cipher segment, and the destination holds the second segment's output
C17_HashThenCipher ==
    \E t \in Threads :
        /\ RunReturned(t) /\ ret[t] = "0" /\ ses[cur[t]].tfm # "NULL"
        /\ Len(req[t].segs) = 2
        /\ req[t].segs[1].flags = {"HASH"} /\ Len(req[t].segs[1].src) > 0
        /\ "CIPHER" \in req[t].segs[2].flags
        /\ Len(req[t].segs[2].src) > PAGE_SIZE
        /\ Len(out[t].dst) = Len(req[t].segs[2].src)

\* the run of thread t as it goes when no call of the kernel fails: same
\* session, same starting IV state, same request
Reference(t) ==
    WholeRun([hasC |-> ses[cur[t]].tfm # "NULL",
              hasH |-> ses[cur[t]].hash_tfm # "NULL",
              key |-> ses[cur[t]].key, iv |-> out[t].iv0],
             req[t])

\* what the copy_to_user(dst, ...) calls of a call log have written
Copied(calls) ==
    Concat([j \in 1..Len(calls) |->
               IF calls[j].f = "copy_to_user" THEN calls[j].in ELSE <<>>])

\* C18: a run that fails stops there: the failed call is the last call it
\* makes, everything before it is what the run does when nothing fails,
\* the hash is not finalized and no mac is written, the error is that of
\* the first failure (a misalignment is reported only when no call failed
\* before it), and the destination holds what was written before the
\* failure, unchanged.
C18_AbortOnFailure ==
    \A t \in Threads :
        (RunReturned(t) /\ ret[t] # "0") =>
            LET calls == out[t].calls
                ref == Reference(t)
                n == Len(calls)
            IN /\ out[t].mac = <<>>
               /\ \A j \in 1..n :
                    /\ calls[j].f # "copy_to_user_mac"
                    /\ calls[j].f = "hash_final" => (j = n /\ ret[t] = "EPROVIDER")
               /\ out[t].dst = Copied(calls)
               /\ IsPrefix(out[t].dst, ref.dst)
               /\ ret[t] = "ENOMEM" => calls = <<>>
               /\ ret[t] = "EINVAL" =>
                    /\ calls = ref.calls
                    /\ ref.ret = "EINVAL"
                    /\ FirstMisaligned(req[t].segs) # 0
               /\ ret[t] = "EPROVIDER" =>
                    /\ n >= 1 /\ n <= Len(ref.calls)
                    /\ SubSeq(calls, 1, n - 1) = SubSeq(ref.calls, 1, n - 1)
                    /\ calls[n].f = ref.calls[n].f
                    /\ calls[n].seg = ref.calls[n].seg
                    /\ calls[n].in = ref.calls[n].in
                    /\ calls[n].out = <<>>
                    /\ calls[n].f \in {"hash_init", "hash_update", "encrypt",
                                       "decrypt", "hash_final"}

\* C18 witness: a run has failed in a provider call of its second segment
\* after writing output for the first, with calls left that it did not make
C18_FailedInSecond ==
    \E t \in Threads :
        /\ RunReturned(t) /\ ret[t] = "EPROVIDER"
        /\ Len(out[t].calls) >= 1
        /\ out[t].calls[Len(out[t].calls)].seg = 2
        /\ Len(out[t].dst) > 0
        /\ Len(Reference(t).calls) > Len(out[t].calls) + 2

\* C19: a run releases the session lock it took exactly once and releases
\* no lock it did not take: no semaphore's count ever exceeds 1, and when
\* every call has returned the table lock and the lock of every session in
\* the table are free, with count exactly 1.
C19_LocksBalanced ==
    /\ sem <= 1
    /\ \A o \in Objs : ses[o].sem <= 1
    /\ (\A t \in Threads : pc[t] = "idle") =>
           /\ sem = 1
           /\ \A i \in 1..Len(list) : ses[list[i]].sem = 1

\* C20: under fair scheduling every create_session, run, destroy_session
\* and destroy_all call that a thread has entered eventually returns.
C20_EveryCallReturns ==
    \A t \in Threads : (pc[t] # "idle") ~> (pc[t] = "idle")

====
